---------------------------- MODULE Spec2Model ----------------------------
(* A model of the CREATE2 salt miner of src/mine/src/main.rs: the scorer     *)
(* leading_zeros, the worker closure spawned N_THREADS times by main, and    *)
(* main itself (argument handling, spawn loop, join loop, minimum, output).  *)
(*                                                                           *)
(* Scaling.  The source fixes N_THREADS = 8 = 2^3, BATCH_SIZE = 4096, a      *)
(* 32-byte salt whose last 8 bytes are a big-endian u64, and keccak256.      *)
(* The model keeps the structure and scales the sizes:                       *)
(*   - the thread count stays a power of two, 2^LogThreads;                  *)
(*   - the salt is a sequence of HiBits + WordBits bits, most significant  *)
(*     first (the source: 192 + 64 bits, as 24 + 8 bytes);                   *)
(*   - BATCH_SIZE is a small number;                                         *)
(*   - Spec follows every worker through its first MaxExamined iterations,  *)
(*     SpecFair lets the workers run on, on fewer command lines;             *)
(*   - keccak256 is a fixed many-to-one function onto the digests of         *)
(*     DigestTable (a rolling fold of the input bytes picks the digest).     *)
(* Addresses keep their 20 bytes, and the scorer its five 32-bit words.      *)
EXTENDS Integers, Sequences, FiniteSets, TLC

----------------------------------------------------------------------------
(* Bounds of the model *)

LogThreads == 1
WordBits == 3
HiBits == 1
MaxExamined == 5
MaxInitcode == 3
MaxRuns == 2
MaxTail == 3

----------------------------------------------------------------------------
(* Program constants *)

DEPLOYER ==
    <<78, 89, 180, 72, 71, 179, 121, 87, 133, 136, 146, 12, 167, 143, 191, 38, 192, 180, 149, 108>>

UNISWAP_FACTORY ==
    <<92, 105, 190, 231, 1, 239, 129, 74, 43, 106, 62, 221, 75, 22, 82, 203, 156, 197, 170, 111>>

WETH ==
    <<192, 42, 170, 57, 178, 35, 254, 141, 10, 14, 92, 79, 39, 234, 217, 8, 60, 117, 108, 194>>

UNISWAP_PAIR_INITCODE_HASH ==
    <<150, 232, 172, 66, 119, 25, 143, 248, 182, 247, 133, 71, 138, 169, 163, 159, 64, 60, 183, 104, 221, 2, 203, 238, 50, 108, 62, 125, 163, 72, 132, 95>>

N_THREADS == 2 ^ LogThreads

BATCH_SIZE == 3

(* Address is 20 bytes; u32 words of 4 bytes, 32 bits each. *)
ADDR_LEN == 20
CHUNK_LEN == 4
WORD_BITS == 32

----------------------------------------------------------------------------
(* Option<T>: None is the empty sequence, Some(v) the sequence <<v>>. *)

None == <<>>
Some(v) == <<v>>
IsSome(o) == o # <<>>
Unwrap(o) == o[1]

----------------------------------------------------------------------------
(* Byte sequences *)

Zeros(n) == [k \in 1 .. n |-> 0]

(* Lexicographic order of two byte sequences of equal length: the Ord of    *)
(* FixedBytes (Address, B256), that is the order of unsigned big-endian     *)
(* integers.                                                                 *)
BytesLess(a, b) ==
    \E k \in 1 .. Len(a) :
        /\ k <= Len(b)
        /\ \A j \in 1 .. (k - 1) : a[j] = b[j]
        /\ a[k] < b[k]

(* Ord of the tuple (B256, Address, Address): lexicographic by component. *)
CandLess(x, y) ==
    \/ BytesLess(x[1], y[1])
    \/ x[1] = y[1] /\ BytesLess(x[2], y[2])
    \/ x[1] = y[1] /\ x[2] = y[2] /\ BytesLess(x[3], y[3])

----------------------------------------------------------------------------
(* The scorer: fn leading_zeros(addr: Address) -> Option<u32> *)

(* slice::chunks_exact(n): the consecutive chunks of exactly n elements;    *)
(* a shorter remainder is left out.                                         *)
ChunksExact(b, n) ==
    [k \in 1 .. (Len(b) \div n) |-> SubSeq(b, (k - 1) * n + 1, k * n)]

(* <[u8; 4]>::try_from(&[u8]).ok(): Some only for a slice of length 4. *)
TryIntoArray4(c) == IF Len(c) = CHUNK_LEN THEN Some(c) ELSE None

(* Variant: the bytes are read little-endian. *)
U32FromLeBytes(c) == <<c[4] * 256 + c[3], c[2] * 256 + c[1]>>

(* u32::from_be_bytes.  A u32 is held as its two 16-bit halves <<hi, lo>>,  *)
(* so that no arithmetic leaves the range of the model checker's integers.  *)
U32FromBeBytes(c) == <<c[1] * 256 + c[2], c[3] * 256 + c[4]>>

(* Leading zero bits of a value x < 2^width, by repeated halving. *)
RECURSIVE BitLength(_)
BitLength(x) == IF x = 0 THEN 0 ELSE 1 + BitLength(x \div 2)

(* u32::leading_zeros *)
U32LeadingZeros(w) ==
    IF w[1] # 0 THEN 16 - BitLength(w[1]) ELSE 16 + (16 - BitLength(w[2]))

(* The loop of leading_zeros from chunk k on, with running count r. *)
RECURSIVE LeadingZerosLoop(_, _, _)
LeadingZerosLoop(chunks, k, r) ==
    IF k > Len(chunks) THEN Some(r)
    ELSE LET a == TryIntoArray4(chunks[k])
         IN  IF ~IsSome(a) THEN None
             ELSE LET w == U32FromBeBytes(Unwrap(a))
                      z == U32LeadingZeros(w)
                  IN  IF z < WORD_BITS THEN Some(r + z)
                      ELSE LeadingZerosLoop(chunks, k + 1, r + WORD_BITS)

leading_zeros(a) == LeadingZerosLoop(ChunksExact(a, CHUNK_LEN), 1, 0)

----------------------------------------------------------------------------
(* Address derivation.  keccak256 and Address::create2 are the alloy        *)
(* library's; keccak256 is modelled as a fixed function onto DigestTable.   *)

(* Twenty-byte tails of the digests: addresses of every kind the search     *)
(* distinguishes (zero, top bit set, a few leading zero bits, WETH itself,  *)
(* above WETH, only the last bit set).                                       *)
AddrTable ==
    << Zeros(20),
       <<128>> \o Zeros(19),
       <<15>> \o [k \in 1 .. 19 |-> 255],
       WETH,
       [k \in 1 .. 20 |-> 255],
       Zeros(5) \o <<1>> \o Zeros(14),
       <<8>> \o Zeros(18) \o <<1>>,
       Zeros(19) \o <<1>>,
       <<64, 7>> \o Zeros(18),
       <<9>> \o [k \in 1 .. 19 |-> 170],
       <<200>> \o Zeros(19) >>

DigestTable ==
    [h \in 1 .. Len(AddrTable) |->
        [k \in 1 .. 12 |-> (37 * h + 11 * k) % 256] \o AddrTable[h]]

(* A fold of the input bytes lo..hi, by halves. *)
RECURSIVE Fold(_, _, _)
Fold(s, lo, hi) ==
    IF lo > hi THEN 7
    ELSE IF lo = hi THEN ((s[lo] + 1) * (lo * 7 + 13)) % 997
    ELSE LET mid == (lo + hi) \div 2
             a == Fold(s, lo, mid)
             b == Fold(s, mid + 1, hi)
         IN  (a * 31 + b * 19 + a * b) % 997

keccak256(input) == DigestTable[(Fold(input, 1, Len(input)) % Len(DigestTable)) + 1]

(* Address::create2(&self, salt, init_code_hash):                           *)
(* keccak256(0xff ++ self ++ salt ++ init_code_hash)[12..]                   *)
Last20(d) == SubSeq(d, Len(d) - ADDR_LEN + 1, Len(d))

Create2(sender, slt, initCodeHash) ==
    Last20(keccak256(<<255>> \o sender \o slt \o initCodeHash))

----------------------------------------------------------------------------
(* The salt and its low word (lines 67-76 and 105-107).                     *)

SALT_LEN == HiBits + WordBits

(* The number of values of the low word: 2^64 in the source. *)
WordMod == 2 ^ WordBits

\* u64::from_be of the word's storage: the value of big-endian digits.
RECURSIVE FromBe(_)
FromBe(d) ==
    IF d = <<>> THEN 0 ELSE 2 * FromBe(SubSeq(d, 1, Len(d) - 1)) + d[Len(d)]

(* u64::to_be for storage: the n big-endian digits of v. *)
ToBe(v, n) == [k \in 1 .. n |-> (v \div (2 ^ (n - k))) % 2]

(* salt.0.as_mut_ptr().add(32 - size_of::<u64>()).cast::<u64>(): the word   *)
(* aliases the last WordBits bits of the salt.  The salt is also read       *)
(* through a shared reference (line 85) while this reference lives; the     *)
(* model takes every write through salt_word to land in the salt's last     *)
(* word and every read of salt.0 to see it, as the compiled closure does.   *)
SaltWord(slt) == SubSeq(slt, HiBits + 1, SALT_LEN)

WriteSaltWord(slt, d) == SubSeq(slt, 1, HiBits) \o d

(* B256::ZERO *)
B256Zero == Zeros(SALT_LEN)

(* `as u64` of a usize *)
AsU64(x) == x % WordMod

(* u64::wrapping_add *)
WrappingAdd(a, b) == (a + b) % WordMod

\* salt_word := (thread_idx as u64).to_be()
InitialSalt(thread_idx) ==
    WriteSaltWord(B256Zero, ToBe(AsU64(thread_idx), WordBits))

\* Variant: the stride is added to the whole salt, with carry out of the word.
AdvanceSaltCarry(slt) ==
    ToBe((FromBe(slt) + N_THREADS) % (2 ^ SALT_LEN), SALT_LEN)

\* Variant: the stride is twice the thread count.
AdvanceSaltDouble(slt) ==
    WriteSaltWord(slt,
        ToBe(WrappingAdd(FromBe(SaltWord(slt)), AsU64(2 * N_THREADS)), WordBits))

\* Variant: the stride is one, not the thread count.
AdvanceSaltByOne(slt) ==
    WriteSaltWord(slt, ToBe(WrappingAdd(FromBe(SaltWord(slt)), 1), WordBits))

\* salt_word := u64::from_be(salt_word).wrapping_add(N_THREADS as u64).to_be()
AdvanceSalt(slt) ==
    WriteSaltWord(slt,
        ToBe(WrappingAdd(FromBe(SaltWord(slt)), AsU64(N_THREADS)), WordBits))

----------------------------------------------------------------------------
(* Command-line arguments.  A string is a sequence of one-character         *)
(* strings.                                                                  *)

HexChars ==
    <<"0", "1", "2", "3", "4", "5", "6", "7", "8", "9", "a", "b", "c", "d", "e", "f">>

DecChars == SubSeq(HexChars, 1, 10)

IsIn(c, chars) == \E k \in 1 .. Len(chars) : chars[k] = c

ValOf(c, chars) == (CHOOSE k \in 1 .. Len(chars) : chars[k] = c) - 1

StripPrefix0x(str) ==
    IF Len(str) >= 2 /\ str[1] = "0" /\ str[2] = "x"
    THEN SubSeq(str, 3, Len(str)) ELSE str

(* <B256 as hex::FromHex>::from_hex: an optional 0x, then exactly 64 hex    *)
(* digits; Some(bytes) models Ok, None models Err.                           *)
FromHex(str) ==
    LET h == StripPrefix0x(str)
    IN  IF Len(h) = 64 /\ \A k \in 1 .. 64 : IsIn(h[k], HexChars)
        THEN Some([k \in 1 .. 32 |->
                16 * ValOf(h[2 * k - 1], HexChars) + ValOf(h[2 * k], HexChars)])
        ELSE None

(* The value of a sequence of decimal digits. *)
RECURSIVE DecValue(_)
DecValue(d) ==
    IF d = <<>> THEN 0
    ELSE 10 * DecValue(SubSeq(d, 1, Len(d) - 1)) + ValOf(d[Len(d)], DecChars)

(* str::parse::<usize>: an optional +, then one or more decimal digits.     *)
(* (Its overflow error needs more digits than the inputs here have.)        *)
ParseUsize(str) ==
    LET d == IF Len(str) >= 1 /\ str[1] = "+" THEN Tail(str) ELSE str
    IN  IF Len(d) >= 1 /\ \A k \in 1 .. Len(d) : IsIn(d[k], DecChars)
        THEN Some(DecValue(d)) ELSE None

(* The inputs of the model. *)
InitcodeArg(s) ==
    <<"0", "x">> \o [k \in 1 .. 62 |-> "0"]
        \o <<HexChars[(s \div 16) + 1], HexChars[(s % 16) + 1]>>

GoodHexArgs == {InitcodeArg(s) : s \in 0 .. (MaxInitcode - 1)}

BadHexArgs == {<<"0", "x", "z", "z">>, [k \in 1 .. 62 |-> "0"]}

GoodTargetArgs == {<<"0">>, <<"4">>, <<"1", "6", "0">>, <<"1", "6", "1">>}

BadTargetArgs == {<<"x">>, <<"-", "1">>}

Prog == <<"f", "u">>

ArgvSet ==
    {<<Prog, h, t>> : h \in GoodHexArgs, t \in GoodTargetArgs}
        \cup {<<Prog, h, t>> : h \in BadHexArgs, t \in {<<"4">>}}
        \cup {<<Prog, InitcodeArg(0), t>> : t \in BadTargetArgs}
        \cup {<<Prog>>, <<Prog, InitcodeArg(0)>>,
              <<Prog, InitcodeArg(0), <<"4">>, <<"4">>>>}

----------------------------------------------------------------------------
(* One iteration's derivation, lines 85-98 of the worker closure.  The      *)
(* derivations are functions of the salt and the initcode hash alone; they  *)
(* are tabulated once over the salts and inputs of the model.               *)

(* The salts, by number. *)
SaltOf(v) == ToBe(v, SALT_LEN)

RECURSIVE TokensOfSalts(_, _, _)
TokensOfSalts(ic, lo, hi) ==
    IF lo = hi THEN SaltOf(lo) :> Create2(DEPLOYER, SaltOf(lo), ic)
    ELSE LET mid == (lo + hi) \div 2
         IN  TokensOfSalts(ic, lo, mid) @@ TokensOfSalts(ic, mid + 1, hi)

InitcodeInputs == {Unwrap(FromHex(h)) : h \in GoodHexArgs}

TokenTable ==
    [ic \in InitcodeInputs |-> TokensOfSalts(ic, 0, (2 ^ SALT_LEN) - 1)]

\* let token_address = DEPLOYER.create2(&salt.0, &initcode);
TokenAddress(slt, ic) == TokenTable[ic][slt]

\* Variant: the comparison is turned around.
SortTokensSwapped(token_address) ==
    IF BytesLess(WETH, token_address) THEN <<token_address, WETH>>
    ELSE <<WETH, token_address>>

\* let (token0, token1) = if token_address < WETH { .. } else { .. };
SortTokens(token_address) ==
    IF BytesLess(token_address, WETH) THEN <<token_address, WETH>>
    ELSE <<WETH, token_address>>

PairSaltInput(token_address) ==
    LET t == SortTokens(token_address) IN t[1] \o t[2]

PairOf(token_address) ==
    Create2(UNISWAP_FACTORY, keccak256(PairSaltInput(token_address)),
            UNISWAP_PAIR_INITCODE_HASH)

RECURSIVE PairsOfTokens(_, _)
PairsOfTokens(lo, hi) ==
    IF lo = hi THEN AddrTable[lo] :> PairOf(AddrTable[lo])
    ELSE LET mid == (lo + hi) \div 2
         IN  PairsOfTokens(lo, mid) @@ PairsOfTokens(mid + 1, hi)

PairTable == PairsOfTokens(1, Len(AddrTable))

PairAddress(token_address) == PairTable[token_address]

RECURSIVE ScoresOfPairs(_, _)
ScoresOfPairs(lo, hi) ==
    IF lo = hi THEN AddrTable[lo] :> leading_zeros(AddrTable[lo])
    ELSE LET mid == (lo + hi) \div 2
         IN  ScoresOfPairs(lo, mid) @@ ScoresOfPairs(mid + 1, hi)

ScoreTable == ScoresOfPairs(1, Len(AddrTable))

\* leading_zeros(pair_address)
PairScore(pair_address) == ScoreTable[pair_address]

----------------------------------------------------------------------------
(* State *)

VARIABLES
    args,       \* env::args()
    mpc,        \* main's position
    initcode,   \* the parsed initcode hash
    target,     \* the parsed target
    spawned,    \* thread_idx of the spawn loop = number of handles pushed
    found,      \* the shared AtomicBool
    wpc,        \* each worker's position
    salt,       \* each worker's salt
    iter,       \* each worker's position in its batch
    ret,        \* each worker closure's return value, once it has returned
    examined,   \* history: the first salts each worker has derived and scored
    joined,     \* number of handles joined
    results,    \* the Vec collected from the joined workers
    emitted,    \* the candidate printed
    runs,       \* number of the run of the program
    prev,       \* what the previous run printed
    storers,    \* history: the workers that have stored true to the flag
    sinceSet,   \* history: salts each worker examined with the flag set
    addr,       \* scorer harness: the address scored
    score       \* scorer harness: the result of leading_zeros

vars ==
    <<args, mpc, initcode, target, spawned, found, wpc, salt, iter, ret,
      examined, joined, results, emitted, runs, prev, storers, sinceSet,
      addr, score>>

progVars ==
    <<args, mpc, initcode, target, spawned, found, wpc, salt, iter, ret,
      examined, joined, results, emitted, runs, prev, storers, sinceSet>>

Workers == 0 .. (N_THREADS - 1)

(* The state of one run before main's first statement. *)
StartOfRun ==
    /\ mpc = "start"
    /\ initcode = <<>>
    /\ target = 0
    /\ spawned = 0
    /\ found = FALSE
    /\ wpc = [i \in Workers |-> "unspawned"]
    /\ salt = [i \in Workers |-> B256Zero]
    /\ iter = [i \in Workers |-> 0]
    /\ ret = [i \in Workers |-> None]
    /\ examined = [i \in Workers |-> <<>>]
    /\ joined = 0
    /\ results = <<>>
    /\ emitted = None
    /\ storers = {}
    /\ sinceSet = [i \in Workers |-> 0]

Init ==
    /\ args \in ArgvSet
    /\ StartOfRun
    /\ runs = 1
    /\ prev = None
    /\ addr = <<>>
    /\ score = None

----------------------------------------------------------------------------
(* main, lines 40-57: arguments *)

\* if args.len() != 3 { ...; process::exit(1) }
CheckArgs ==
    /\ mpc = "start"
    /\ mpc' = IF Len(args) # 3 THEN "exit_usage" ELSE "parse_hex"
    /\ UNCHANGED <<args, initcode, target, spawned, found, wpc, salt, iter,
                   ret, examined, joined, results, emitted, runs, prev,
                   addr, score,
                   storers, sinceSet>>

\* let initcode: B256 = hex::FromHex::from_hex(args[1].clone())?;
ParseInitcode ==
    /\ mpc = "parse_hex"
    /\ LET r == FromHex(args[2])
       IN  IF IsSome(r)
           THEN initcode' = Unwrap(r) /\ mpc' = "parse_target"
           ELSE initcode' = initcode /\ mpc' = "err_hex"
    /\ UNCHANGED <<args, target, spawned, found, wpc, salt, iter, ret,
                   examined, joined, results, emitted, runs, prev, addr, score,
                   storers, sinceSet>>

\* Variant: a target that does not parse is taken as 0 (unwrap_or_default).
ParseTargetOrDefault ==
    /\ mpc = "parse_target"
    /\ LET r == ParseUsize(args[3])
       IN  target' = IF IsSome(r) THEN Unwrap(r) ELSE 0
    /\ mpc' = "spawn"
    /\ UNCHANGED <<args, initcode, spawned, found, wpc, salt, iter, ret,
                   examined, joined, results, emitted, runs, prev, addr, score,
                   storers, sinceSet>>

\* let target: usize = args[2].parse().expect(...);
ParseTarget ==
    /\ mpc = "parse_target"
    /\ LET r == ParseUsize(args[3])
       IN  IF IsSome(r)
           THEN target' = Unwrap(r) /\ mpc' = "spawn"
           ELSE target' = target /\ mpc' = "panic_target"
    /\ UNCHANGED <<args, initcode, spawned, found, wpc, salt, iter, ret,
                   examined, joined, results, emitted, runs, prev, addr, score,
                   storers, sinceSet>>

----------------------------------------------------------------------------
(* main, lines 59-113: the spawn loop *)

\* One turn of `for thread_idx in 0..N_THREADS`: the thread starts with its
\* salt set (lines 67-77) at the top of 'outer.
Spawn ==
    /\ mpc = "spawn"
    /\ spawned < N_THREADS
    /\ wpc' = [wpc EXCEPT ![spawned] = "load"]
    /\ salt' = [salt EXCEPT ![spawned] = InitialSalt(spawned)]
    /\ spawned' = spawned + 1
    /\ mpc' = IF spawned + 1 = N_THREADS THEN "join" ELSE "spawn"
    /\ UNCHANGED <<args, initcode, target, found, iter, ret, examined,
                   joined, results, emitted, runs, prev, addr, score,
                   storers, sinceSet>>

----------------------------------------------------------------------------
(* The worker closure, lines 79-109 *)

\* Variant: the test of the flag is inverted.
LoadFlagInverted(i) ==
    /\ wpc[i] = "load"
    /\ IF ~found
       THEN /\ ret' = [ret EXCEPT ![i] = <<>>]
            /\ wpc' = [wpc EXCEPT ![i] = "done"]
            /\ iter' = iter
       ELSE /\ wpc' = [wpc EXCEPT ![i] = "batch"]
            /\ iter' = [iter EXCEPT ![i] = 0]
            /\ ret' = ret
    /\ UNCHANGED <<args, mpc, initcode, target, spawned, found, salt,
                   examined, joined, results, emitted, runs, prev, addr, score,
                   storers, sinceSet>>

\* Variant: the flag is tested before the first batch only.
LoadFlagOnce(i) ==
    /\ wpc[i] = "load"
    /\ IF found /\ examined[i] = <<>>
       THEN /\ ret' = [ret EXCEPT ![i] = None]
            /\ wpc' = [wpc EXCEPT ![i] = "done"]
            /\ iter' = iter
       ELSE /\ wpc' = [wpc EXCEPT ![i] = "batch"]
            /\ iter' = [iter EXCEPT ![i] = 0]
            /\ ret' = ret
    /\ UNCHANGED <<args, mpc, initcode, target, spawned, found, salt,
                   examined, joined, results, emitted, runs, prev, addr, score,
                   storers, sinceSet>>

\* if found.load(Ordering::Relaxed) { break None; }   then enter the batch.
\* found is one atomic location, only ever stored true: a load is modelled as
\* reading its current value.
LoadFlag(i) ==
    /\ wpc[i] = "load"
    /\ IF found
       THEN /\ ret' = [ret EXCEPT ![i] = None]
            /\ wpc' = [wpc EXCEPT ![i] = "done"]
            /\ iter' = iter
       ELSE /\ wpc' = [wpc EXCEPT ![i] = "batch"]
            /\ iter' = [iter EXCEPT ![i] = 0]
            /\ ret' = ret
    /\ UNCHANGED <<args, mpc, initcode, target, spawned, found, salt,
                   examined, joined, results, emitted, runs, prev, addr, score,
                   storers, sinceSet>>

\* Variant: the salt is advanced before the candidate is built.
CandidateAfterAdvance(slt, token_address, pair_address) ==
    <<AdvanceSalt(slt), token_address, pair_address>>

\* Some((salt.0, token_address, pair_address))
Candidate(slt, token_address, pair_address) ==
    <<slt, token_address, pair_address>>

\* Variant: the flag is tested after every iteration.
AfterIterationLoad(it) == "load"

\* The end of `for _ in 0..BATCH_SIZE` after iteration number it (from 0): the
\* next iteration, or back to the top of 'outer.
AfterIteration(it) == IF it + 1 = BATCH_SIZE THEN "load" ELSE "batch"

\* The history of a worker keeps the first MaxExamined salts it examined.
Record(h, s) == IF Len(h) < MaxExamined THEN Append(h, s) ELSE h

\* Variant: accepts a score of at least the target.
AcceptsAtLeast(z, tgt) == Unwrap(z) >= tgt

\* if leading_zeros(pair_address)? as usize == target
Accepts(z, tgt) == Unwrap(z) = tgt

\* Variant: the flag is stored before the score is tested.
ExamineStoresFirst(i) ==
    /\ wpc[i] = "batch"
    /\ found' = TRUE
    /\ storers' = storers \cup {i}
    /\ sinceSet' = [sinceSet EXCEPT ![i] = IF found THEN @ + 1 ELSE @]
    /\ LET token_address == TokenAddress(salt[i], initcode)
           pair_address == PairAddress(token_address)
           z == PairScore(pair_address)
       IN  /\ examined' = [examined EXCEPT ![i] = Record(@, salt[i])]
           /\ IF ~IsSome(z)
              THEN /\ ret' = [ret EXCEPT ![i] = None]
                   /\ wpc' = [wpc EXCEPT ![i] = "done"]
                   /\ UNCHANGED <<salt, iter>>
              ELSE IF Accepts(z, target)
              THEN /\ ret' = [ret EXCEPT ![i] =
                                Some(Candidate(salt[i], token_address, pair_address))]
                   /\ wpc' = [wpc EXCEPT ![i] = "done"]
                   /\ UNCHANGED <<salt, iter>>
              ELSE /\ salt' = [salt EXCEPT ![i] = AdvanceSalt(@)]
                   /\ iter' = [iter EXCEPT ![i] = @ + 1]
                   /\ wpc' = [wpc EXCEPT ![i] = AfterIteration(iter[i])]
                   /\ ret' = ret
    /\ UNCHANGED <<args, mpc, initcode, target, spawned, joined, results,
                   emitted, runs, prev, addr, score>>

\* Variant: a match is returned without the store to the flag.
ExamineNoStore(i) ==
    /\ wpc[i] = "batch"
    /\ LET token_address == TokenAddress(salt[i], initcode)
           pair_address == PairAddress(token_address)
           z == PairScore(pair_address)
       IN  /\ examined' = [examined EXCEPT ![i] = Record(@, salt[i])]
           /\ sinceSet' = [sinceSet EXCEPT ![i] = IF found THEN @ + 1 ELSE @]
           /\ IF ~IsSome(z)
              THEN
                   /\ ret' = [ret EXCEPT ![i] = None]
                   /\ wpc' = [wpc EXCEPT ![i] = "done"]
                   /\ UNCHANGED <<found, storers, salt, iter>>
              ELSE IF Accepts(z, target)
              THEN /\ UNCHANGED <<found, storers>>
                   /\ ret' = [ret EXCEPT ![i] =
                                Some(Candidate(salt[i], token_address, pair_address))]
                   /\ wpc' = [wpc EXCEPT ![i] = "done"]
                   /\ UNCHANGED <<salt, iter>>
              ELSE /\ salt' = [salt EXCEPT ![i] = AdvanceSalt(@)]
                   /\ iter' = [iter EXCEPT ![i] = @ + 1]
                   /\ wpc' = [wpc EXCEPT ![i] = AfterIteration(iter[i])]
                   /\ UNCHANGED <<found, storers, ret>>
    /\ UNCHANGED <<args, mpc, initcode, target, spawned, joined, results,
                   emitted, runs, prev, addr, score>>

\* Variant: a match met with the flag already set is given up.
ExamineFirstWins(i) ==
    /\ wpc[i] = "batch"
    /\ LET token_address == TokenAddress(salt[i], initcode)
           pair_address == PairAddress(token_address)
           z == PairScore(pair_address)
       IN  /\ examined' = [examined EXCEPT ![i] = Record(@, salt[i])]
           /\ sinceSet' = [sinceSet EXCEPT ![i] = IF found THEN @ + 1 ELSE @]
           /\ IF ~IsSome(z)
              THEN
                   /\ ret' = [ret EXCEPT ![i] = None]
                   /\ wpc' = [wpc EXCEPT ![i] = "done"]
                   /\ UNCHANGED <<found, storers, salt, iter>>
              ELSE IF Accepts(z, target)
              THEN /\ found' = TRUE
                   /\ storers' = storers \cup {i}
                   /\ ret' = [ret EXCEPT ![i] =
                                IF found THEN None
                                ELSE Some(Candidate(salt[i], token_address, pair_address))]
                   /\ wpc' = [wpc EXCEPT ![i] = "done"]
                   /\ UNCHANGED <<salt, iter>>
              ELSE /\ salt' = [salt EXCEPT ![i] = AdvanceSalt(@)]
                   /\ iter' = [iter EXCEPT ![i] = @ + 1]
                   /\ wpc' = [wpc EXCEPT ![i] = AfterIteration(iter[i])]
                   /\ UNCHANGED <<found, storers, ret>>
    /\ UNCHANGED <<args, mpc, initcode, target, spawned, joined, results,
                   emitted, runs, prev, addr, score>>

\* One iteration of `for _ in 0..BATCH_SIZE`, lines 85-107.
Examine(i) ==
    /\ wpc[i] = "batch"
    /\ LET token_address == TokenAddress(salt[i], initcode)
           pair_address == PairAddress(token_address)
           z == PairScore(pair_address)
       IN  /\ examined' = [examined EXCEPT ![i] = Record(@, salt[i])]
           /\ sinceSet' = [sinceSet EXCEPT ![i] = IF found THEN @ + 1 ELSE @]
           /\ IF ~IsSome(z)
              THEN \* the ? operator: the closure returns None
                   /\ ret' = [ret EXCEPT ![i] = None]
                   /\ wpc' = [wpc EXCEPT ![i] = "done"]
                   /\ UNCHANGED <<found, storers, salt, iter>>
              ELSE IF Accepts(z, target)
              THEN /\ found' = TRUE
                   /\ storers' = storers \cup {i}
                   /\ ret' = [ret EXCEPT ![i] =
                                Some(Candidate(salt[i], token_address, pair_address))]
                   /\ wpc' = [wpc EXCEPT ![i] = "done"]
                   /\ UNCHANGED <<salt, iter>>
              ELSE /\ salt' = [salt EXCEPT ![i] = AdvanceSalt(@)]
                   /\ iter' = [iter EXCEPT ![i] = @ + 1]
                   /\ wpc' = [wpc EXCEPT ![i] = AfterIteration(iter[i])]
                   /\ UNCHANGED <<found, storers, ret>>
    /\ UNCHANGED <<args, mpc, initcode, target, spawned, joined, results,
                   emitted, runs, prev, addr, score>>

\* An iteration among the first MaxExamined of its worker.
ExamineWithin(i) ==
    /\ Len(examined[i]) < MaxExamined
    /\ Examine(i)

----------------------------------------------------------------------------
(* main, lines 115-129: join, minimum, output *)

\* Variant: only the first Some value is kept.
JoinKeepsFirst ==
    /\ mpc = "join"
    /\ joined < N_THREADS
    /\ wpc[joined] = "done"
    /\ results' = IF IsSome(ret[joined]) /\ results = <<>>
                  THEN Append(results, Unwrap(ret[joined])) ELSE results
    /\ joined' = joined + 1
    /\ mpc' = IF joined + 1 = N_THREADS THEN "min" ELSE "join"
    /\ UNCHANGED <<args, initcode, target, spawned, found, wpc, salt, iter,
                   ret, examined, emitted, runs, prev, addr, score,
                   storers, sinceSet>>

\* Variant: the handle is polled, not waited for.
JoinNoWait ==
    /\ mpc = "join"
    /\ joined < N_THREADS
    /\ results' = IF IsSome(ret[joined])
                  THEN Append(results, Unwrap(ret[joined])) ELSE results
    /\ joined' = joined + 1
    /\ mpc' = IF joined + 1 = N_THREADS THEN "min" ELSE "join"
    /\ UNCHANGED <<args, initcode, target, spawned, found, wpc, salt, iter,
                   ret, examined, emitted, runs, prev, addr, score,
                   storers, sinceSet>>

\* One handle of handles.into_iter().filter_map(|h| h.join().unwrap()):
\* join blocks until the thread has returned; Some values are collected.
Join ==
    /\ mpc = "join"
    /\ joined < N_THREADS
    /\ wpc[joined] = "done"
    /\ results' = IF IsSome(ret[joined])
                  THEN Append(results, Unwrap(ret[joined])) ELSE results
    /\ joined' = joined + 1
    /\ mpc' = IF joined + 1 = N_THREADS THEN "min" ELSE "join"
    /\ UNCHANGED <<args, initcode, target, spawned, found, wpc, salt, iter,
                   ret, examined, emitted, runs, prev, addr, score,
                   storers, sinceSet>>

\* Variant: the first collected candidate, not the minimum.
IterFirst(v) == IF v = <<>> THEN <<>> ELSE <<v[1]>>

\* Iterator::min: of equal elements the first is kept.
RECURSIVE MinOfFrom(_, _, _)
MinOfFrom(v, k, acc) ==
    IF k > Len(v) THEN acc
    ELSE MinOfFrom(v, k + 1, IF CandLess(v[k], acc) THEN v[k] ELSE acc)

IterMin(v) == IF v = <<>> THEN None ELSE Some(MinOfFrom(v, 2, v[1]))

\* let (salt, token_address, pair_address) = results.into_iter().min().unwrap();
\* println!(...); Ok(())
Resolve ==
    /\ mpc = "min"
    /\ LET m == IterMin(results)
       IN  IF IsSome(m)
           THEN emitted' = m /\ mpc' = "done"
           ELSE emitted' = emitted /\ mpc' = "panic_no_result"
    /\ UNCHANGED <<args, initcode, target, spawned, found, wpc, salt, iter,
                   ret, examined, joined, results, runs, prev, addr, score,
                   storers, sinceSet>>

----------------------------------------------------------------------------
(* Running the program again with the same arguments. *)

Rerun ==
    /\ mpc = "done"
    /\ runs < MaxRuns
    /\ runs' = runs + 1
    /\ prev' = emitted
    /\ mpc' = "start"
    /\ initcode' = <<>>
    /\ target' = 0
    /\ spawned' = 0
    /\ found' = FALSE
    /\ wpc' = [i \in Workers |-> "unspawned"]
    /\ salt' = [i \in Workers |-> B256Zero]
    /\ iter' = [i \in Workers |-> 0]
    /\ ret' = [i \in Workers |-> None]
    /\ examined' = [i \in Workers |-> <<>>]
    /\ joined' = 0
    /\ results' = <<>>
    /\ emitted' = None
    /\ storers' = {}
    /\ sinceSet' = [i \in Workers |-> 0]
    /\ UNCHANGED <<args, addr, score>>

----------------------------------------------------------------------------
(* The scorer on its own: leading_zeros applied to one address. *)

\* Bit j (1 = most significant) of an address with k leading zero bits, a one
\* bit, and then the tail pattern t (0: zeros, t > 0: a one at every t-th bit).
PatternBit(k, t, j) ==
    IF j <= k THEN 0
    ELSE IF j = k + 1 THEN 1
    ELSE IF t > 0 /\ j % t = 0 THEN 1 ELSE 0

PatternByte(k, t, n) ==
    128 * PatternBit(k, t, 8 * n - 7) + 64 * PatternBit(k, t, 8 * n - 6)
    + 32 * PatternBit(k, t, 8 * n - 5) + 16 * PatternBit(k, t, 8 * n - 4)
    + 8 * PatternBit(k, t, 8 * n - 3) + 4 * PatternBit(k, t, 8 * n - 2)
    + 2 * PatternBit(k, t, 8 * n - 1) + PatternBit(k, t, 8 * n)

PatternAddr(k, t) == [n \in 1 .. ADDR_LEN |-> PatternByte(k, t, n)]

ScoreInputs ==
    {PatternAddr(k, t) : k \in 0 .. (8 * ADDR_LEN - 1), t \in 0 .. MaxTail}
        \cup {Zeros(ADDR_LEN)}

InitScore ==
    /\ args = <<Prog>>
    /\ StartOfRun
    /\ runs = 1
    /\ prev = None
    /\ addr \in ScoreInputs
    /\ score = <<>>

\* score holds <<r>> once leading_zeros has returned r.
ScoreAddr ==
    /\ score = <<>>
    /\ addr # <<>>
    /\ score' = <<leading_zeros(addr)>>
    /\ UNCHANGED <<addr, progVars>>

----------------------------------------------------------------------------
(* Specifications *)

Next ==
    \/ CheckArgs
    \/ ParseInitcode
    \/ ParseTarget
    \/ Spawn
    \/ \E i \in Workers : LoadFlag(i)
    \/ \E i \in Workers : ExamineWithin(i)
    \/ Join
    \/ Resolve

\* Every worker is followed through its first MaxExamined iterations.
Spec == Init /\ [][Next]_vars

\* The main thread, and the thread of worker i.
Main == CheckArgs \/ ParseInitcode \/ ParseTarget \/ Spawn \/ Join \/ Resolve

Worker(i) == LoadFlag(i) \/ Examine(i)

\* The command lines of the runs followed without a bound on the iterations.
FairArgvSet ==
    {<<Prog, InitcodeArg(1), t>> : t \in {<<"1", "6", "0">>, <<"1", "6", "1">>}}

InitFair ==
    /\ Init
    /\ args \in FairArgvSet

NextFair == Main \/ \E i \in Workers : Worker(i)

\* The workers run on past their recorded history.  The threads are OS
\* threads: each one that can take a step eventually does.
SpecFair ==
    /\ InitFair
    /\ [][NextFair]_vars
    /\ WF_vars(Main)
    /\ \A i \in Workers : WF_vars(Worker(i))

NextRerun == Next \/ Rerun

SpecRerun == Init /\ [][NextRerun]_vars

NextScore == ScoreAddr

SpecScore == InitScore /\ [][NextScore]_vars

----------------------------------------------------------------------------
(* Vocabulary of the properties *)

\* Bit j (1 = most significant) of a byte sequence.
BitAt(a, j) == (a[((j - 1) \div 8) + 1] \div (2 ^ (7 - ((j - 1) % 8)))) % 2

\* The number of leading zero bits of a byte sequence read as one unsigned
\* big-endian integer.
LeadingZeroBits(a) ==
    IF \A j \in 1 .. (8 * Len(a)) : BitAt(a, j) = 0 THEN 8 * Len(a)
    ELSE (CHOOSE j \in 1 .. (8 * Len(a)) :
             BitAt(a, j) = 1 /\ \A h \in 1 .. (j - 1) : BitAt(a, h) = 0) - 1

\* The value of a sequence of bits as an unsigned big-endian integer.
RECURSIVE UIntBE(_)
UIntBE(b) == IF b = <<>> THEN 0 ELSE 2 * UIntBE(SubSeq(b, 1, Len(b) - 1)) + b[Len(b)]

\* The pair address derived from a salt in this run, and its bit-level score.
PairOfSalt(s) == PairAddress(TokenAddress(s, initcode))

\* The bit-level scores of the addresses a derivation can yield, tabulated.
RECURSIVE BitScores(_, _)
BitScores(lo, hi) ==
    IF lo = hi THEN AddrTable[lo] :> LeadingZeroBits(AddrTable[lo])
    ELSE LET mid == (lo + hi) \div 2
         IN  BitScores(lo, mid) @@ BitScores(mid + 1, hi)

BitScoreTable == BitScores(1, Len(AddrTable))

ScoreOfSalt(s) == BitScoreTable[PairOfSalt(s)]

\* x < y as unsigned big-endian integers, decided bit by bit.
UIntLessBits(x, y) ==
    \E j \in 1 .. (8 * Len(x)) :
        /\ BitAt(x, j) = 0
        /\ BitAt(y, j) = 1
        /\ \A h \in 1 .. (j - 1) : BitAt(x, h) = BitAt(y, h)

\* The token addresses whose ordered pair (token0, token1) is strictly
\* ascending.
StrictTokens ==
    {tk \in {AddrTable[n] : n \in 1 .. Len(AddrTable)} :
        UIntLessBits(SortTokens(tk)[1], SortTokens(tk)[2])}

\* The token address derived from a salt in this run.
TokenOfSalt(s) == TokenAddress(s, initcode)

\* The characters of a string.
CharsOf(str) == {str[k] : k \in 1 .. Len(str)}

HexDigitSet ==
    {"0", "1", "2", "3", "4", "5", "6", "7", "8", "9", "a", "b", "c", "d", "e", "f"}

DecDigitSet == {"0", "1", "2", "3", "4", "5", "6", "7", "8", "9"}

\* The string is the hex of 32 bytes: 64 hex digits, after 0x if present.
IsHexOf32Bytes(str) ==
    \/ Len(str) = 64 /\ CharsOf(str) \subseteq HexDigitSet
    \/ /\ Len(str) = 66
       /\ SubSeq(str, 1, 2) = <<"0", "x">>
       /\ CharsOf(SubSeq(str, 3, 66)) \subseteq HexDigitSet

\* The string is a decimal integer: digits, after a sign if present.
IsInteger(str) ==
    \/ str # <<>> /\ CharsOf(str) \subseteq DecDigitSet
    \/ /\ Len(str) >= 2
       /\ str[1] \in {"+", "-"}
       /\ CharsOf(Tail(str)) \subseteq DecDigitSet

\* The command line is one of those C12 names.
BadCommandLine ==
    \/ Len(args) # 3
    \/ ~IsHexOf32Bytes(args[2])
    \/ ~IsInteger(args[3])

\* No search has been started: no worker spawned, the flag clear, nothing
\* examined, collected or printed.
NoSearch ==
    /\ spawned = 0
    /\ \A i \in Workers : wpc[i] = "unspawned" /\ examined[i] = <<>>
    /\ found = FALSE
    /\ joined = 0
    /\ results = <<>>
    /\ emitted = None

\* main has parsed its arguments and gone on to the search.
SearchStarted == mpc \in {"spawn", "join", "min", "done", "panic_no_result"}

\* The targets of the command lines.
TargetInputs == {Unwrap(ParseUsize(t)) : t \in GoodTargetArgs}

\* For an initcode hash and a target, the values of the low word whose salt
\* (high bits zero) has a pair address scoring exactly the target: the
\* matching salts of the workers' sequences.  Tabulated over the inputs.
MatchingWordsTable ==
    [ic \in InitcodeInputs |-> [t \in TargetInputs |->
        {v \in 0 .. (WordMod - 1) :
            BitScoreTable[PairAddress(TokenAddress(SaltOf(v), ic))] = t}]]

MatchingWords == MatchingWordsTable[initcode][target]

\* The high bits of a salt, and the value of its low word.
HighPart(s) == SubSeq(s, 1, HiBits)

LowValue(s) == UIntBE(SubSeq(s, HiBits + 1, HiBits + WordBits))

Terminated(i) == wpc[i] = "done"

IsFound(i) == Terminated(i) /\ IsSome(ret[i])

IsAborted(i) == Terminated(i) /\ ~IsSome(ret[i])

IsRunning(i) == wpc[i] \in {"load", "batch"}

\* The candidates returned as Found by the workers of this run.
FoundSet == {Unwrap(ret[i]) : i \in {w \in Workers : IsFound(w)}}

Range(v) == {v[k] : k \in 1 .. Len(v)}

Last(v) == v[Len(v)]

----------------------------------------------------------------------------
(* Properties *)

\* C1: once main has printed, the printed candidate is one of the candidates
\* returned as Found in this run, and no Found candidate of the run has a
\* smaller salt (salts as unsigned big-endian integers).
C1_EmitsMinimumSalt ==
    mpc = "done" =>
        /\ IsSome(emitted)
        /\ Unwrap(emitted) \in FoundSet
        /\ \A c \in FoundSet : UIntBE(Unwrap(emitted)[1]) <= UIntBE(c[1])

\* A run in which two workers were Found and the minimum is not the first
\* candidate collected.
C1_Witness ==
    /\ mpc = "done"
    /\ Cardinality(FoundSet) >= 2
    /\ results[1] # Unwrap(emitted)

\* C2: a run of the program with the same arguments prints the same
\* candidate as the run before it.
C2_SameResultEveryRun ==
    (mpc = "done" /\ IsSome(prev)) => emitted = prev

\* C3: a worker has accepted a salt (returned Found with it, the flag set)
\* exactly when the score of the salt's pair address equals the target; a
\* salt with any other score, a greater one included, is passed over.
C3_AcceptsExactlyTarget ==
    \A i \in Workers : \A k \in 1 .. Len(examined[i]) :
        (ScoreOfSalt(examined[i][k]) = target)
            <=> /\ k = Len(examined[i])
                /\ IsFound(i)
                /\ Unwrap(ret[i])[1] = examined[i][k]
                /\ found

\* With target 0, a worker has passed over a pair address with 4 leading
\* zero bits and has later returned Found.
C3_Witness ==
    /\ target = 0
    /\ \E i \in Workers :
        /\ IsFound(i)
        /\ \E k \in 1 .. Len(examined[i]) : ScoreOfSalt(examined[i][k]) = 4

\* C4: with a target above 160 no worker is spawned and no salt is examined.
C4_OutOfRangeTargetNeverSearched ==
    target > 8 * ADDR_LEN =>
        /\ spawned = 0
        /\ \A i \in Workers : wpc[i] = "unspawned" /\ examined[i] = <<>>

\* C5: the k-th salt a worker i examines holds (i + (k-1) * N) mod 2^w in its
\* low word, and no salt has been examined by two different workers.
C5_StridePartition ==
    /\ \A i \in Workers : \A k \in 1 .. Len(examined[i]) :
          UIntBE(SubSeq(examined[i][k], HiBits + 1, HiBits + WordBits))
              = (i + (k - 1) * N_THREADS) % (2 ^ WordBits)
    /\ \A i, j \in Workers :
          i # j => Range(examined[i]) \cap Range(examined[j]) = {}

\* A worker has examined more salts than its residue class holds: its low
\* word has wrapped around.
C5_Witness ==
    \E i \in Workers : Len(examined[i]) * N_THREADS > 2 ^ WordBits

\* C6: a worker that has examined a matching salt has returned Found with
\* that salt's candidate, whatever the flag was; and every candidate
\* returned by a joined worker is among the collected results.
C6_NoFoundCandidateDropped ==
    /\ \A i \in Workers : \A k \in 1 .. Len(examined[i]) :
          ScoreOfSalt(examined[i][k]) = target =>
              /\ Terminated(i)
              /\ ret[i] = Some(<<examined[i][k],
                                 TokenAddress(examined[i][k], initcode),
                                 PairOfSalt(examined[i][k])>>)
    /\ \A j \in 0 .. (joined - 1) :
          IsSome(ret[j]) => Unwrap(ret[j]) \in Range(results)
    /\ mpc \in {"min", "done", "panic_no_result"} => Range(results) = FoundSet

\* All workers joined, and more than one candidate collected: all but the
\* first were found with the flag already set.
C6_Witness ==
    /\ mpc = "min"
    /\ Len(results) >= 2

\* C7: with a target in range, when every worker has terminated at least one
\* of them is Found, and main never fails for want of a result.
C7_SomeWorkerFound ==
    target <= 8 * ADDR_LEN =>
        /\ (\A i \in Workers : Terminated(i)) => \E i \in Workers : IsFound(i)
        /\ mpc # "panic_no_result"

\* Every worker has terminated and one of them was Aborted.
C7_Witness ==
    /\ target <= 8 * ADDR_LEN
    /\ \A i \in Workers : Terminated(i)
    /\ \E i \in Workers : IsAborted(i)

\* C8: main selects and prints only when every worker has terminated.
C8_EmitsAfterAllJoined ==
    (mpc \in {"min", "done", "panic_no_result"} \/ IsSome(emitted)) =>
        /\ joined = N_THREADS
        /\ \A i \in Workers : Terminated(i)

\* A Found result has been collected, a worker is still running, and nothing
\* has been selected or printed.
C8_Witness ==
    /\ mpc = "join"
    /\ results # <<>>
    /\ \E i \in Workers : IsRunning(i)
    /\ emitted = None

\* C9: when the flag is set, some worker has examined last a salt whose pair
\* address scores exactly the target, and has returned Found.
C9_FlagImpliesVerifiedMatch ==
    found =>
        \E i \in Workers :
            /\ examined[i] # <<>>
            /\ ScoreOfSalt(Last(examined[i])) = target
            /\ IsFound(i)

\* The flag is set while another worker is still inside a batch.
C9_Witness ==
    /\ found
    /\ \E i \in Workers : wpc[i] = "batch" /\ examined[i] # <<>>

\* C10: leading_zeros returns Some of the number of leading zero bits of the
\* 160-bit big-endian integer: 160 for the zero address, 0 with the top bit
\* set, k after exactly k zero bits and a one bit; never None, never above
\* 160.
C10_ScoreIsLeadingZeroBits ==
    score # <<>> =>
        /\ IsSome(score[1])
        /\ Unwrap(score[1]) \in 0 .. (8 * ADDR_LEN)
        /\ Unwrap(score[1]) = LeadingZeroBits(addr)
        /\ (addr = Zeros(ADDR_LEN)) => Unwrap(score[1]) = 8 * ADDR_LEN
        /\ addr[1] >= 128 => Unwrap(score[1]) = 0
        /\ \A k \in 0 .. (8 * ADDR_LEN - 1) :
              ((\A j \in 1 .. k : BitAt(addr, j) = 0) /\ BitAt(addr, k + 1) = 1)
                  => Unwrap(score[1]) = k

\* An address whose first one bit lies in the last word, with a zero bit
\* following it, has been scored.
C10_Witness ==
    /\ score # <<>>
    /\ LeadingZeroBits(addr) \in 129 .. 158
    /\ BitAt(addr, LeadingZeroBits(addr) + 2) = 0

C12_BadArgumentsNoSearch ==
    BadCommandLine =>
        /\ NoSearch
        /\ mpc \in {"start", "parse_hex", "parse_target",
                    "exit_usage", "err_hex", "panic_target"}
        /\ Len(args) # 3 => mpc \in {"start", "exit_usage"}
        /\ (Len(args) = 3 /\ ~IsHexOf32Bytes(args[2]))
              => mpc \in {"start", "parse_hex", "err_hex"}
        /\ mpc = "parse_target" => ~IsInteger(args[3])

\* The hash parsed, the target is not an integer, and main has panicked.
C12_Witness ==
    /\ mpc = "panic_target"
    /\ ~IsInteger(args[3])
    /\ Len(initcode) = 32

\* C13: a worker examines at most BATCH_SIZE salts in states where the flag
\* is set; having examined that many it is at its flag test or has
\* terminated, and a worker that examined any of them and has terminated is
\* Aborted or Found.
C13_OverrunAtMostOneBatch ==
    \A i \in Workers :
        /\ sinceSet[i] <= BATCH_SIZE
        /\ sinceSet[i] = BATCH_SIZE => wpc[i] \in {"load", "done"}
        /\ sinceSet[i] > 0 => storers \ {i} # {}

\* A worker has overrun by a whole batch and is Aborted, the flag having been
\* set by another worker.
C13_Witness ==
    \E i \in Workers :
        /\ IsAborted(i)
        /\ sinceSet[i] = BATCH_SIZE
        /\ storers # {}
        /\ i \notin storers

\* C14: under fair scheduling, once the search has started with a target in
\* range and a matching salt in some worker's sequence, eventually every
\* worker has terminated and main has printed a result; and with no matching
\* salt in any worker's sequence no worker ever terminates.
C14_TerminatesIffMatchExists ==
    /\ (SearchStarted /\ target <= 8 * ADDR_LEN /\ MatchingWords # {})
          ~> (/\ \A i \in Workers : Terminated(i)
              /\ mpc = "done"
              /\ IsSome(emitted))
    /\ []((SearchStarted /\ MatchingWords = {})
            => \A i \in Workers : ~Terminated(i))

\* The only matching salts lie in one worker's sequence and not at its start;
\* that worker was Found, the others Aborted, and main has printed.
C14_Witness ==
    /\ mpc = "done"
    /\ \E i \in Workers :
          /\ IsFound(i)
          /\ Len(examined[i]) >= 2
          /\ \A v \in MatchingWords : v % N_THREADS = i
          /\ \A j \in Workers \ {i} : IsAborted(j)

\* C15: a worker that is Aborted has examined a whole number of batches: the
\* number of salts it examined is a multiple of BATCH_SIZE (counted while the
\* history holds them all), and it stopped with no batch begun or a batch
\* completed.
C15_AbortedAtBatchBoundary ==
    \A i \in Workers :
        IsAborted(i) =>
            /\ Len(examined[i]) < MaxExamined
                  => Len(examined[i]) % BATCH_SIZE = 0
            /\ iter[i] = (IF examined[i] = <<>> THEN 0 ELSE BATCH_SIZE)
            /\ found

\* A worker is Aborted after at least one whole batch, all of it in its
\* history.
C15_Witness ==
    \E i \in Workers :
        /\ IsAborted(i)
        /\ Len(examined[i]) >= BATCH_SIZE
        /\ Len(examined[i]) < MaxExamined

\* C16: once worker 0 has terminated it has examined the all-zero salt, and
\* that salt first.
C16_WorkerZeroExaminesZeroSalt ==
    Terminated(0) =>
        /\ examined[0] # <<>>
        /\ examined[0][1] = Zeros(SALT_LEN)

\* C17: every step that advances a worker's salt takes its low word from v
\* to (v + N) mod 2^w and leaves the high part as it was; and the high part
\* of every worker's salt is zero throughout.
C17_AdvanceWrapsLowWord ==
    /\ [](\A i \in Workers : HighPart(salt[i]) = Zeros(HiBits))
    /\ [][\A i \in Workers :
            (wpc[i] = "batch" /\ salt'[i] # salt[i]) =>
                /\ LowValue(salt'[i]) =
                       (LowValue(salt[i]) + N_THREADS) % (2 ^ WordBits)
                /\ HighPart(salt'[i]) = HighPart(salt[i])
                /\ wpc'[i] \in {"batch", "load"}]_vars

\* A worker's low word has wrapped around: it examined a salt smaller than
\* the one before, and it is still running.
C17_Witness ==
    \E i \in Workers :
        /\ IsRunning(i)
        /\ \E k \in 1 .. (Len(examined[i]) - 1) :
              LowValue(examined[i][k + 1]) < LowValue(examined[i][k])
        /\ HighPart(salt[i]) = Zeros(HiBits)

\* C18: a worker that has terminated stays as it is: it examines no further
\* salt, its result stands and it stores nothing to the flag; a worker
\* becomes Aborted only by a step taken with the flag set, and set by another
\* worker; and a worker that has examined a matching salt is never Aborted.
C18_WorkerStateMachine ==
    /\ [][\A i \in Workers :
            /\ Terminated(i) =>
                  /\ wpc'[i] = wpc[i]
                  /\ ret'[i] = ret[i]
                  /\ examined'[i] = examined[i]
                  /\ sinceSet'[i] = sinceSet[i]
                  /\ salt'[i] = salt[i]
                  /\ (i \in storers') = (i \in storers)
            /\ (~Terminated(i) /\ Terminated(i)' /\ ~IsSome(ret'[i])) =>
                  /\ wpc[i] = "load"
                  /\ found
                  /\ storers \ {i} # {}
            /\ (~Terminated(i) /\ Terminated(i)' /\ IsSome(ret'[i])) =>
                  /\ wpc[i] = "batch"
                  /\ found'
                  /\ i \in storers'
            /\ wpc[i] \in {"load", "batch"} =>
                  wpc'[i] \in {"load", "batch", "done"}]_vars
    /\ [](\A i \in Workers : \A k \in 1 .. Len(examined[i]) :
            ScoreOfSalt(examined[i][k]) = target => ~IsAborted(i))

\* A worker met its match with the flag already set by another worker, was
\* Found, and has stayed so until main printed.
C18_Witness ==
    /\ mpc = "done"
    /\ \E i \in Workers :
          /\ IsFound(i)
          /\ sinceSet[i] > 0
          /\ storers \ {i} # {}

\* C19: the candidate a worker has returned, and the candidate main has
\* printed, hold a salt, the token address derived from DEPLOYER, that salt
\* and the initcode hash, and the pair address derived from that token
\* address, whose score is the target; a worker's candidate holds the salt it
\* examined last, which is still its salt.
C19_CandidateConsistent ==
    /\ \A i \in Workers :
          IsFound(i) =>
              LET c == Unwrap(ret[i]) IN
              /\ c[2] = TokenOfSalt(c[1])
              /\ c[3] = PairAddress(c[2])
              /\ BitScoreTable[c[3]] = target
              /\ c[1] = Last(examined[i])
              /\ c[1] = salt[i]
    /\ IsSome(emitted) =>
          LET e == Unwrap(emitted) IN
          /\ e[2] = TokenOfSalt(e[1])
          /\ e[3] = PairAddress(e[2])
          /\ BitScoreTable[e[3]] = target
          /\ \E i \in Workers : IsFound(i) /\ e[1] = Last(examined[i])

\* main has printed the candidate of a worker that had advanced its salt
\* before it met the match.
C19_Witness ==
    /\ mpc = "done"
    /\ \E i \in Workers :
          /\ IsFound(i)
          /\ Len(examined[i]) >= 2
          /\ emitted = ret[i]

\* C20: no worker has gone on past a matching salt; a worker that is Found
\* has returned the first matching salt of the sequence i, i+N, i+2N, ...
\* (low word, modulo 2^w): the n-th of it, none of the n-1 before it
\* matching; and main collects at most one candidate from each worker.
C20_FirstMatchOfOwnSequence ==
    /\ \A i \in Workers : \A k \in 1 .. (Len(examined[i]) - 1) :
          ScoreOfSalt(examined[i][k]) # target
    /\ \A i \in Workers :
          IsFound(i) =>
              LET n == Len(examined[i])
                  s == Unwrap(ret[i])[1]
              IN  /\ s = examined[i][n]
                  /\ ScoreOfSalt(s) = target
                  /\ s = SaltOf((i + (n - 1) * N_THREADS) % WordMod)
                  /\ \A m \in 0 .. (n - 2) :
                        (i + m * N_THREADS) % WordMod \notin MatchingWords
    /\ Len(results) = Cardinality({j \in 0 .. (joined - 1) : IsFound(j)})
    /\ \A a, b \in 1 .. Len(results) : a # b => results[a][1] # results[b][1]

\* A worker has returned a salt of its sequence that is not the first, a
\* further matching salt lies behind it in the sequence, and main has
\* collected the candidate.
C20_Witness ==
    \E i \in Workers :
        /\ IsFound(i)
        /\ Len(examined[i]) >= 2
        /\ \E v \in MatchingWords :
              v % N_THREADS = i /\ v > LowValue(Unwrap(ret[i])[1])
        /\ joined > i
        /\ Unwrap(ret[i]) \in Range(results)

============================================================================
